---- MODULE Spec2Model ----
(***************************************************************************)
(* A model of mandelbrot.py: the renderer main(), the escape-time loop     *)
(* iterate() and the coordinate mapper map_inclusive_ranges().             *)
(*                                                                         *)
(* Numbers.  Python's float is a binary floating-point format: 53          *)
(* significant bits, round to nearest with ties to even, and a smallest    *)
(* unit (2^-1074).  The model keeps that shape with smaller parameters:    *)
(* Precision significant bits and a smallest unit of 2^-FracBits.  A float *)
(* is held as the integer count of smallest units, so Scale stands for     *)
(* 1.0.  Every arithmetic operation computes the exact result and rounds   *)
(* it once, as the hardware does.                                          *)
(***************************************************************************)
EXTENDS Integers, Sequences, FiniteSets

\* ---------------------------------------------------------------- bounds

Precision == 9
FracBits == 9
MaxDim == 3
MaxIter == 3
BigIter == 300
Runs == 2

\* ------------------------------------------------------ program constants

DefaultIter == 255
ByteMax == 255

\* ------------------------------------------------------ float arithmetic

RECURSIVE Pow2(_)
Pow2(k) == IF k = 0 THEN 1 ELSE 2 * Pow2(k - 1)

Scale == Pow2(FracBits)

Mag(k) == IF k < 0 THEN -k ELSE k

\* n/d (d > 0) rounded to the nearest integer, ties to the even one.
RoundHalfEven(n, d) ==
    LET q == n \div d
        r == n % d
    IN  IF 2 * r < d THEN q
        ELSE IF 2 * r > d THEN q + 1
        ELSE IF q % 2 = 0 THEN q ELSE q + 1

\* The exponent of n/d: the least s >= 0 with |n/d| < 2^(Precision+s).
RECURSIVE BinadeShift(_, _, _)
BinadeShift(n, d, s) ==
    IF Mag(n) < d * Pow2(Precision + s) THEN s ELSE BinadeShift(n, d, s + 1)

\* The float nearest to the exact quotient n/d (in smallest units).
RoundRat(n, d) ==
    LET s == BinadeShift(n, d, 0)
    IN  Pow2(s) * RoundHalfEven(n, d * Pow2(s))

FromInt(k) == RoundRat(k * Scale, 1)
FAdd(a, b) == RoundRat(a + b, 1)
FSub(a, b) == RoundRat(a - b, 1)
FMul(a, b) == RoundRat(a * b, Scale)
\* int / int, Python's true division (b > 0 here: the caller tests b = 0).
IntTrueDiv(a, b) == RoundRat(a * Scale, b)

RECURSIVE SqrtBetween(_, _, _)
SqrtBetween(S, lo, hi) ==
    IF hi - lo <= 1 THEN lo
    ELSE LET mid == (lo + hi) \div 2
         IN  IF mid * mid <= S THEN SqrtBetween(S, mid, hi)
             ELSE SqrtBetween(S, lo, mid)

\* abs() of a complex number: the float nearest to sqrt(re^2 + im^2).
Hypot(z) ==
    LET S == z[1] * z[1] + z[2] * z[2]
        r == SqrtBetween(S, 0, 16 * Scale)
        s == BinadeShift(r, 1, 0)
        g == Pow2(s)
        q == r \div g
        m == (2 * q + 1) * g
    IN  IF 4 * S < m * m THEN q * g
        ELSE IF 4 * S > m * m THEN (q + 1) * g
        ELSE IF q % 2 = 0 THEN q * g ELSE (q + 1) * g

\* zn ** 2 for a complex zn: (a*a - b*b) + (a*b + b*a)j.
CSquare(z) ==
    <<FSub(FMul(z[1], z[1]), FMul(z[2], z[2])),
      FAdd(FMul(z[1], z[2]), FMul(z[2], z[1]))>>

CAdd(z, w) == <<FAdd(z[1], w[1]), FAdd(z[2], w[2])>>

\* ------------------------------------------------------------ the helpers

map_inclusive_ranges(src_min, src_max, dest_min, dest_max, src_val) ==
    LET fraction_in_src == IntTrueDiv(src_val - src_min, src_max - src_min)
    IN  FAdd(FMul(FSub(dest_max, dest_min), fraction_in_src), dest_min)

\* The test of line 50.
EscapeTestEq(z) == Hypot(z) >= 2 * Scale
EscapeTestLoose(z) == Hypot(z) > 4 * Scale
EscapeTest(z) == Hypot(z) > 2 * Scale

\* The update of line 53.
OrbitStep(z, w) == CAdd(CSquare(z), w)

\* ------------------------------------------------------------- the header

RECURSIVE Decimal(_)
Decimal(k) ==
    IF k < 10 THEN <<48 + k>> ELSE Decimal(k \div 10) \o <<48 + (k % 10)>>

\* bytes(f'P6 {WIDTH} {HEIGHT} 255 ', encoding='ascii')
Header(w, h) ==
    <<80, 54, 32>> \o Decimal(w) \o <<32>> \o Decimal(h) \o <<32, 50, 53, 53, 32>>

\* ------------------------------------------------------------------ state

VARIABLES WIDTH, HEIGHT, X_MIN, X_MAX, Y_MIN, Y_MAX, MAX_ITERATIONS,
          pc, f, row, col, c, iters, zn, n, err, run, prev

params == <<WIDTH, HEIGHT, X_MIN, X_MAX, Y_MIN, Y_MAX, MAX_ITERATIONS>>
vars == <<WIDTH, HEIGHT, X_MIN, X_MAX, Y_MIN, Y_MAX, MAX_ITERATIONS,
          pc, f, row, col, c, iters, zn, n, err, run, prev>>

\* The plane bounds tried: the program's own, the program's with X_MAX one
\* unit in the last place above 1, and a window on the edge of the set.
Ulp1 == Scale \div Pow2(Precision - 1)
DefaultRegion == <<-2 * Scale, Scale, -((3 * Scale) \div 2), (3 * Scale) \div 2>>
NudgedRegion == <<-2 * Scale, Scale + Ulp1, -((3 * Scale) \div 2), (3 * Scale) \div 2>>
EdgeRegion == <<-2 * Scale, -((17 * Scale) \div 32), -(Scale \div 2), Scale \div 2>>

Configs ==
    ((1..MaxDim) \X (1..MaxDim) \X {DefaultRegion, NudgedRegion} \X (1..MaxIter))
    \cup ((1..MaxDim) \X (1..MaxDim) \X {EdgeRegion}
          \X ((1..MaxIter) \cup {DefaultIter, BigIter}))

Init ==
    /\ \E k \in Configs :
          /\ WIDTH = k[1]
          /\ HEIGHT = k[2]
          /\ X_MIN = k[3][1]
          /\ X_MAX = k[3][2]
          /\ Y_MIN = k[3][3]
          /\ Y_MAX = k[3][4]
          /\ MAX_ITERATIONS = k[4]
    /\ pc = "open"
    /\ f = <<>>
    /\ row = 0
    /\ col = 0
    /\ c = <<0, 0>>
    /\ iters = 0
    /\ zn = <<0, 0>>
    /\ n = 0
    /\ err = "none"
    /\ run = 1
    /\ prev = <<>>

\* ------------------------------------------------------------------- main

\* open(..., "bw"): the file is created or cut to nothing.
OpenAppend(old) == old
OpenTruncate(old) == <<>>

Open ==
    /\ pc = "open"
    /\ f' = OpenTruncate(f)
    /\ pc' = "header"
    /\ UNCHANGED <<params, row, col, c, iters, zn, n, err, run, prev>>

WriteHeader ==
    /\ pc = "header"
    /\ f' = f \o Header(WIDTH, HEIGHT)
    /\ row' = 0
    /\ pc' = "for_row"
    /\ UNCHANGED <<params, col, c, iters, zn, n, err, run, prev>>

RangeHasIncl(i, k) == i <= k
RangeHas(i, k) == i < k

\* for row in range(HEIGHT)
ForRow ==
    /\ pc = "for_row"
    /\ IF RangeHas(row, HEIGHT)
       THEN /\ col' = 0
            /\ pc' = "for_col"
       ELSE /\ pc' = "close"
            /\ UNCHANGED col
    /\ UNCHANGED <<params, f, row, c, iters, zn, n, err, run, prev>>

\* for col in range(WIDTH)
ForCol ==
    /\ pc = "for_col"
    /\ IF RangeHas(col, WIDTH)
       THEN /\ pc' = "map"
            /\ UNCHANGED row
       ELSE /\ row' = row + 1
            /\ pc' = "for_row"
    /\ UNCHANGED <<params, f, col, c, iters, zn, n, err, run, prev>>

SampleX(k) == map_inclusive_ranges(0, WIDTH - 1, X_MIN, X_MAX, k)
SampleY(k) == map_inclusive_ranges(0, HEIGHT - 1, Y_MIN, Y_MAX, k)

MapCoordsTransposed ==
    /\ pc = "map"
    /\ IF WIDTH - 1 = 0 \/ HEIGHT - 1 = 0
       THEN /\ err' = "ZeroDivisionError"
            /\ pc' = "failed"
            /\ UNCHANGED c
       ELSE /\ c' = <<SampleX(row), SampleY(col)>>
            /\ pc' = "call"
            /\ UNCHANGED err
    /\ UNCHANGED <<params, f, row, col, iters, zn, n, run, prev>>

\* x = ..., y = ..., c = x + y * 1j; a zero source range raises
\* ZeroDivisionError, and leaving the with block closes the file.
MapCoords ==
    /\ pc = "map"
    /\ IF WIDTH - 1 = 0 \/ HEIGHT - 1 = 0
       THEN /\ err' = "ZeroDivisionError"
            /\ pc' = "failed"
            /\ UNCHANGED c
       ELSE /\ c' = <<SampleX(col), SampleY(row)>>
            /\ pc' = "call"
            /\ UNCHANGED err
    /\ UNCHANGED <<params, f, row, col, iters, zn, n, run, prev>>

\* ---------------------------------------------------------------- iterate

ZnStartAtC == c
ZnStart == <<0, 0>>

IterateEntry ==
    /\ pc = "call"
    /\ zn' = ZnStart
    /\ n' = 0
    /\ pc' = "iter_for"
    /\ UNCHANGED <<params, f, row, col, c, iters, err, run, prev>>

\* for n in range(MAX_ITERATIONS), and the return after the loop
IterFor ==
    /\ pc = "iter_for"
    /\ IF n < MAX_ITERATIONS
       THEN /\ pc' = "iter_test"
            /\ UNCHANGED iters
       ELSE /\ iters' = MAX_ITERATIONS
            /\ pc' = "emit"
    /\ UNCHANGED <<params, f, row, col, c, zn, n, err, run, prev>>

\* if abs(zn) > 2: return n
IterTest ==
    /\ pc = "iter_test"
    /\ IF EscapeTest(zn)
       THEN /\ iters' = n
            /\ pc' = "emit"
       ELSE /\ pc' = "iter_update"
            /\ UNCHANGED iters
    /\ UNCHANGED <<params, f, row, col, c, zn, n, err, run, prev>>

\* else: zn = zn ** 2 + c
IterUpdate ==
    /\ pc = "iter_update"
    /\ zn' = OrbitStep(zn, c)
    /\ n' = n + 1
    /\ pc' = "iter_for"
    /\ UNCHANGED <<params, f, row, col, c, iters, err, run, prev>>

\* ------------------------------------------------------------- the pixels

PixelBytesPlain(count, budget) == <<count, count, count>>
PixelBytes(count, budget) ==
    IF count = budget THEN <<0, 0, 0>> ELSE <<count, count, count>>

\* bytes([...]) raises ValueError for a value outside range(0, 256).
Emit ==
    /\ pc = "emit"
    /\ IF \A i \in 1..3 : PixelBytes(iters, MAX_ITERATIONS)[i] \in 0..ByteMax
       THEN /\ f' = f \o PixelBytes(iters, MAX_ITERATIONS)
            /\ col' = col + 1
            /\ pc' = "for_col"
            /\ UNCHANGED err
       ELSE /\ err' = "ValueError"
            /\ pc' = "failed"
            /\ UNCHANGED <<f, col>>
    /\ UNCHANGED <<params, row, c, iters, zn, n, run, prev>>

\* The with block ends: the file is closed and main returns.
Close ==
    /\ pc = "close"
    /\ pc' = "done"
    /\ UNCHANGED <<params, f, row, col, c, iters, zn, n, err, run, prev>>

\* The program is started again with the same parameters; prev remembers
\* what the earlier run left in the file.
Rerun ==
    /\ pc \in {"done", "failed"}
    /\ run < Runs
    /\ run' = run + 1
    /\ prev' = f
    /\ pc' = "open"
    /\ err' = "none"
    /\ UNCHANGED <<params, f, row, col, c, iters, zn, n>>

Next ==
    \/ Open
    \/ WriteHeader
    \/ ForRow
    \/ ForCol
    \/ MapCoords
    \/ IterateEntry
    \/ IterFor
    \/ IterTest
    \/ IterUpdate
    \/ Emit
    \/ Close
    \/ Rerun

Spec == Init /\ [][Next]_vars

\* ----------------------------------------------------------------- claims

HeaderLen == Len(Header(WIDTH, HEIGHT))
InIterate == pc \in {"iter_for", "iter_test", "iter_update"}
InBody == pc \in {"for_col", "map", "call", "iter_for", "iter_test", "iter_update", "emit"}
Exceeds2(z) == Hypot(z) > 2 * Scale

\* The k values that follow z under z -> z^2 + w, in order (the halves are
\* computed one after the other, which keeps the recursion shallow).
RECURSIVE OrbitFrom(_, _, _)
OrbitFrom(z, w, k) ==
    IF k = 0 THEN <<>>
    ELSE IF k = 1 THEN <<CAdd(CSquare(z), w)>>
    ELSE CHOOSE r \in {a \o OrbitFrom(a[Len(a)], w, k - k \div 2) :
                          a \in {OrbitFrom(z, w, k \div 2)}} : TRUE

\* The orbit z_0 = 0, z_{k+1} = z_k^2 + c, as <<z_0, ..., z_k>>.
Orbit(w, k) == <<(<<0, 0>>)>> \o OrbitFrom(<<0, 0>>, w, k)

\* C1: iterate(c) returns the least n < MAX_ITERATIONS whose orbit value z_n
\* has magnitude above 2, and MAX_ITERATIONS when there is none; it returns
\* with zn at z_n for the n returned, and z_{n+1} is computed only after z_n
\* passed the test.
IterateContract ==
    /\ InIterate => n \in 0..MAX_ITERATIONS
    /\ pc = "iter_update" => ~Exceeds2(zn)
    /\ pc = "emit" =>
          /\ iters \in 0..MAX_ITERATIONS
          /\ \A o \in {Orbit(c, iters)} :
                /\ zn = o[iters + 1]
                /\ \A k \in 0..(iters - 1) : ~Exceeds2(o[k + 1])
                /\ iters < MAX_ITERATIONS => Exceeds2(o[iters + 1])

IterateEscapes == pc = "emit" /\ iters > 1 /\ iters < MAX_ITERATIONS

\* C2: the pixel just written is (0,0,0) when iterate returned
\* MAX_ITERATIONS and (n,n,n) for a return value n otherwise, and the three
\* channel bytes of every pixel in the file are equal.
PixelIntensity ==
    /\ (pc = "for_col" /\ col >= 1) =>
          LET k == Len(f)
          IN  <<f[k - 2], f[k - 1], f[k]>> =
                 IF iters = MAX_ITERATIONS THEN <<0, 0, 0>>
                 ELSE <<iters, iters, iters>>
    /\ \A k \in 0..((Len(f) - HeaderLen) \div 3 - 1) :
          /\ f[HeaderLen + 3 * k + 1] = f[HeaderLen + 3 * k + 2]
          /\ f[HeaderLen + 3 * k + 2] = f[HeaderLen + 3 * k + 3]

BlackAfterGray ==
    /\ pc = "for_col"
    /\ col >= 2
    /\ iters = MAX_ITERATIONS
    /\ f[Len(f) - 3] > 0

\* C3: a render with WIDTH >= 2, HEIGHT >= 2 and MAX_ITERATIONS <= 255 that
\* ran to completion left the header followed by exactly three bytes per
\* pixel, with both loops exhausted.
OutputSize ==
    (pc = "done" /\ WIDTH >= 2 /\ HEIGHT >= 2 /\ MAX_ITERATIONS <= 255) =>
        /\ Len(f) = HeaderLen + WIDTH * HEIGHT * 3
        /\ SubSeq(f, 1, HeaderLen) = Header(WIDTH, HEIGHT)
        /\ row = HEIGHT

RenderCompleted ==
    pc = "done" /\ WIDTH >= 2 /\ HEIGHT >= 3 /\ MAX_ITERATIONS = DefaultIter

\* C4: pixels follow the header in row-major order: whenever the loop body
\* is at pixel (row, col), exactly row * WIDTH + col pixels have been
\* written, the pixel handed to the writer is the one sampled at (row, col),
\* and a file that holds anything starts with the header.
RowMajorOrder ==
    /\ Len(f) > 0 =>
          /\ Len(f) >= HeaderLen
          /\ SubSeq(f, 1, HeaderLen) = Header(WIDTH, HEIGHT)
    /\ InBody => Len(f) = HeaderLen + 3 * (row * WIDTH + col)
    /\ pc = "emit" =>
          /\ row \in 0..(HEIGHT - 1)
          /\ col \in 0..(WIDTH - 1)
          /\ c = <<SampleX(col), SampleY(row)>>

SecondRowPixel == pc = "emit" /\ row >= 1 /\ col >= 1 /\ WIDTH > HEIGHT

\* C5: the first column is sampled at X_MIN, the last at X_MAX, the first
\* row at Y_MIN and the last at Y_MAX.
EndpointsExact ==
    pc = "call" =>
        /\ col = 0 => c[1] = X_MIN
        /\ col = WIDTH - 1 => c[1] = X_MAX
        /\ row = 0 => c[2] = Y_MIN
        /\ row = HEIGHT - 1 => c[2] = Y_MAX

\* C6: a second run with the same parameters leaves the file exactly as the
\* first run left it.
Idempotent == (pc = "done" /\ run >= 2) => f = prev

SecondRunDone == pc = "done" /\ run = 2 /\ Len(f) > HeaderLen /\ prev # <<>>

\* C7: a render with WIDTH = 1 or HEIGHT = 1 does not complete, and when it
\* has ended in an error no byte has been written to the file.
DegenerateRejected ==
    (WIDTH = 1 \/ HEIGHT = 1) => (pc # "done" /\ (pc = "failed" => f = <<>>))

\* C8 as stated: for |c| > 2 iterate returns 0.
FarPointReturnsZero == (pc = "emit" /\ Exceeds2(c)) => iters = 0

\* C8 amended: for |c| > 2 and MAX_ITERATIONS > 0 iterate returns 1.
FarPointReturnsOne == (pc = "emit" /\ Exceeds2(c)) => iters = 1

FarPointReturned == pc = "emit" /\ Exceeds2(c) /\ MAX_ITERATIONS > 1

NoByteRangeFailure == ~(pc = "failed" /\ err = "ValueError")

====
